---- MODULE Spec2Model ----
(***************************************************************************)
(* zeox: a terminal front-end for the `zeit` time tracker (src/main.rs).   *)
(*                                                                         *)
(* The model follows main(), run_app(), start_tracking(),                  *)
(* finish_tracking() and the three query functions statement by statement. *)
(* Text is a sequence of Unicode code points; the bytes a subprocess       *)
(* writes are a sequence of numbers 0..255 and become text only through    *)
(* from_utf8_lossy.  The terminal is the pair of flags (raw, alt) plus the *)
(* mouse-capture flag that the same execute! call switches.                *)
(***************************************************************************)
EXTENDS Naturals, Sequences, FiniteSets

VARIABLES
    pc,               \* position of the main thread
    exit_status,      \* "running" | "ok" | "err" | "panic"
    res,              \* result of run_app: "none" | "Ok" | "Err"
    raw,              \* terminal is in raw mode
    alt,              \* terminal shows the alternate screen
    mouse,            \* mouse capture is enabled
    current_screen,   \* App.current_screen
    tracking_status,  \* App.tracking_status
    list_output,      \* App.list_output
    stats_output,     \* App.stats_output
    chan,             \* ticks sent and not yet received
    rx_alive,         \* the Receiver end of the channel still exists
    ticker,           \* "unspawned" | "running" | "panicked"
    key,              \* the event read by the current loop cycle
    answers,          \* the prompt answers held by start/finish_tracking
    io,               \* the terminal/subprocess effect of the last main-thread step
    table_screen,     \* history: the dispatch table of the specification, applied in order
    teardown,         \* history: the teardown calls of main() invoked so far
    session_misuse,   \* history: a mode switch was invoked in the mode it switches to
    bracket           \* history: outcome of the last prompt: "none" | "ok" | "failed"

vars == <<pc, exit_status, res, raw, alt, mouse, current_screen, tracking_status,
          list_output, stats_output, chan, rx_alive, ticker, key, answers, io,
          table_screen, teardown, session_misuse, bracket>>

(***************************************************************************)
(* Bounds of the model.                                                    *)
(***************************************************************************)
\* ticks the channel may hold before the ticker is held back
MaxTicks == 2
\* longest subprocess output enumerated for the query functions
MaxOutLen == 2
\* longest prompt answer enumerated for the argument builders
MaxAnsLen == 2

(***************************************************************************)
(* Text literals of the source, as code points.                            *)
(***************************************************************************)
\* "No active tracking."
NoActiveTracking ==
    <<78, 111, 32, 97, 99, 116, 105, 118, 101, 32, 116, 114, 97, 99, 107, 105, 110, 103, 46>>
\* "Error getting tracking status."
ErrorGettingStatus ==
    <<69, 114, 114, 111, 114, 32, 103, 101, 116, 116, 105, 110, 103, 32, 116, 114, 97, 99,
      107, 105, 110, 103, 32, 115, 116, 97, 116, 117, 115, 46>>
\* "Error getting list: "
ErrorGettingList ==
    <<69, 114, 114, 111, 114, 32, 103, 101, 116, 116, 105, 110, 103, 32, 108, 105, 115, 116,
      58, 32>>
\* "Error getting stats: "
ErrorGettingStats ==
    <<69, 114, 114, 111, 114, 32, 103, 101, 116, 116, 105, 110, 103, 32, 115, 116, 97, 116,
      115, 58, 32>>
\* "Failed to start tracking: "
FailedToStart ==
    <<70, 97, 105, 108, 101, 100, 32, 116, 111, 32, 115, 116, 97, 114, 116, 32, 116, 114, 97,
      99, 107, 105, 110, 103, 58, 32>>
\* "Failed to finish tracking: "
FailedToFinish ==
    <<70, 97, 105, 108, 101, 100, 32, 116, 111, 32, 102, 105, 110, 105, 115, 104, 32, 116,
      114, 97, 99, 107, 105, 110, 103, 58, 32>>
ArgTrack == <<116, 114, 97, 99, 107>>
ArgFinish == <<102, 105, 110, 105, 115, 104>>
ArgTracking == <<116, 114, 97, 99, 107, 105, 110, 103>>
ArgList == <<108, 105, 115, 116>>
ArgStats == <<115, 116, 97, 116, 115>>
FlagProject == <<45, 45, 112, 114, 111, 106, 101, 99, 116>>
FlagTask == <<45, 45, 116, 97, 115, 107>>
FlagBegin == <<45, 45, 98, 101, 103, 105, 110>>
FlagFinish == <<45, 45, 102, 105, 110, 105, 115, 104>>
FlagNoColors == <<45, 45, 110, 111, 45, 99, 111, 108, 111, 114, 115>>
\* "Website"
Website == <<87, 101, 98, 115, 105, 116, 101>>

(***************************************************************************)
(* Strings: char::is_whitespace, str::trim, String::from_utf8_lossy.       *)
(***************************************************************************)
\* the code points with the Unicode White_Space property
WhiteSpace ==
    {9, 10, 11, 12, 13, 32, 133, 160, 5760, 8232, 8233, 8239, 8287, 12288} \cup (8192..8202)

RECURSIVE TrimStart(_)
TrimStart(s) ==
    IF s # <<>> /\ Head(s) \in WhiteSpace THEN TrimStart(Tail(s)) ELSE s

RECURSIVE TrimEnd(_)
TrimEnd(s) ==
    IF s # <<>> /\ s[Len(s)] \in WhiteSpace THEN TrimEnd(SubSeq(s, 1, Len(s) - 1)) ELSE s

\* str::trim
Trim(s) == TrimEnd(TrimStart(s))

\* U+FFFD REPLACEMENT CHARACTER
ReplacementChar == 65533

\* String::from_utf8_lossy, for bytes that are ASCII, the lead of a two-byte
\* sequence (0xC2..0xDF), a continuation byte (0x80..0xBF) or never valid
\* (0xC0, 0xC1, 0xF5..0xFF): every maximal invalid part becomes U+FFFD.
RECURSIVE FromUtf8Lossy(_)
FromUtf8Lossy(b) ==
    IF b = <<>> THEN <<>>
    ELSE IF Head(b) < 128 THEN <<Head(b)>> \o FromUtf8Lossy(Tail(b))
    ELSE IF /\ Head(b) \in 194..223
            /\ Len(b) >= 2
            /\ b[2] \in 128..191
         THEN <<(Head(b) - 192) * 64 + (b[2] - 128)>> \o FromUtf8Lossy(Tail(Tail(b)))
    ELSE <<ReplacementChar>> \o FromUtf8Lossy(Tail(b))

\* all sequences over S of length at most n
RECURSIVE SeqsUpTo(_, _)
SeqsUpTo(S, n) ==
    IF n = 0 THEN {<<>>}
    ELSE LET shorter == SeqsUpTo(S, n - 1)
         IN  shorter \cup {Append(s, x) : s \in shorter, x \in S}

(***************************************************************************)
(* The external tool: what Command::output() gives back.                   *)
(***************************************************************************)
\* newline, 'A', the lead of a two-byte sequence (0xC3), a continuation (0xA9)
OutBytes == {10, 65, 195, 169}

\* Command::output() failed: the tool is missing or not executable
SpawnFailure == [spawned |-> FALSE, code |-> 0, stdout |-> <<>>, stderr |-> <<>>]

\* the Output of a tool that ran: exit code, captured stdout and stderr
Outputs(texts) == [spawned : {TRUE}, code : {0, 1}, stdout : texts, stderr : texts]

\* outputs enumerated where the loop is explored
SampleOutputs == Outputs({<<>>, <<10>>, <<65>>})

\* outputs enumerated where one query function is explored
AllOutputs == Outputs(SeqsUpTo(OutBytes, MaxOutLen))

\* output.status.success()
Success(out) == out.code = 0

(***************************************************************************)
(* The query functions, from the Output on (a failed spawn never returns). *)
(***************************************************************************)
\* get_current_tracking, had it formatted the failure as get_list_output does
get_current_tracking_WithStderr(out) ==
    IF Success(out)
    THEN LET stdout == FromUtf8Lossy(out.stdout)
         IN  IF Trim(stdout) = <<>> THEN NoActiveTracking ELSE stdout
    ELSE ErrorGettingStatus \o FromUtf8Lossy(out.stderr)

\* get_current_tracking, had it tested stdout.is_empty() without the trim
get_current_tracking_NoTrim(out) ==
    IF Success(out)
    THEN LET stdout == FromUtf8Lossy(out.stdout)
         IN  IF stdout = <<>> THEN NoActiveTracking ELSE stdout
    ELSE ErrorGettingStatus

\* get_current_tracking, after Command::output() returned `out`
get_current_tracking(out) ==
    IF Success(out)
    THEN LET stdout == FromUtf8Lossy(out.stdout)
         IN  IF Trim(stdout) = <<>> THEN NoActiveTracking ELSE stdout
    ELSE ErrorGettingStatus

\* get_list_output, had it trimmed the output it returns
get_list_output_Trimmed(out) ==
    IF Success(out)
    THEN Trim(FromUtf8Lossy(out.stdout))
    ELSE ErrorGettingList \o FromUtf8Lossy(out.stderr)

\* get_list_output, after Command::output() returned `out`
get_list_output(out) ==
    IF Success(out)
    THEN FromUtf8Lossy(out.stdout)
    ELSE ErrorGettingList \o FromUtf8Lossy(out.stderr)

\* get_stats_output, had it dropped standard error as get_current_tracking does
get_stats_output_NoStderr(out) ==
    IF Success(out)
    THEN FromUtf8Lossy(out.stdout)
    ELSE ErrorGettingStats

\* get_stats_output, after Command::output() returned `out`
get_stats_output(out) ==
    IF Success(out)
    THEN FromUtf8Lossy(out.stdout)
    ELSE ErrorGettingStats \o FromUtf8Lossy(out.stderr)

\* the argument lists of the three queries
TrackingArgs == <<ArgTracking, FlagNoColors>>
ListArgs == <<ArgList, FlagNoColors>>
StatsArgs == <<ArgStats, FlagNoColors>>

(***************************************************************************)
(* Prompts and the argument lists of start and finish.                     *)
(***************************************************************************)
\* space, '-', 'W'
AnsChars == {32, 45, 87}

\* the validator, had it tested input.is_empty() without the trim
ValidateProject_NoTrim(input) == input # <<>>

\* the validator of the project question: TRUE is Ok(()), FALSE the Err message
ValidateProject(input) == Trim(input) # <<>>

\* requestty answers of start_tracking: every input question yields a string,
\* and the project is one its validator accepted
StartAnswers(texts) ==
    {a \in [project : texts, task : texts, begin : texts] : ValidateProject(a.project)}

\* requestty answers of finish_tracking
FinishAnswers(texts) == [task : texts, begin : texts, finish : texts]

SampleTexts == {<<>>, <<32>>, <<87>>}
AllTexts == SeqsUpTo(AnsChars, MaxAnsLen) \cup {Website}

\* answers.get(name).and_then(|a| a.as_string()) followed by the guarded pushes
PushOptional(args, ans, name, flag) ==
    IF name \in DOMAIN ans /\ Trim(ans[name]) # <<>>
    THEN args \o <<flag, ans[name]>>
    ELSE args

\* start_tracking, had it pushed --task and --begin for any non-empty answer
StartArgs_NoTrim(ans) ==
    LET a0 == <<ArgTrack>>
        a1 == IF "project" \in DOMAIN ans THEN a0 \o <<FlagProject, ans["project"]>> ELSE a0
        a2 == IF ans["task"] # <<>> THEN a1 \o <<FlagTask, ans["task"]>> ELSE a1
        a3 == IF ans["begin"] # <<>> THEN a2 \o <<FlagBegin, ans["begin"]>> ELSE a2
    IN  Append(a3, FlagNoColors)

\* the vector `args` of start_tracking when Command::args is called
StartArgs(ans) ==
    LET a0 == <<ArgTrack>>
        a1 == IF "project" \in DOMAIN ans THEN a0 \o <<FlagProject, ans["project"]>> ELSE a0
        a2 == PushOptional(a1, ans, "task", FlagTask)
        a3 == PushOptional(a2, ans, "begin", FlagBegin)
    IN  Append(a3, FlagNoColors)

\* the vector `args` of finish_tracking when Command::args is called
FinishArgs(ans) ==
    LET a0 == <<ArgFinish>>
        a1 == PushOptional(a0, ans, "task", FlagTask)
        a2 == PushOptional(a1, ans, "begin", FlagBegin)
        a3 == PushOptional(a2, ans, "finish", FlagFinish)
    IN  Append(a3, FlagNoColors)

(***************************************************************************)
(* Effects of one main-thread step, as recorded in io.                     *)
(***************************************************************************)
IoNone == [kind |-> "none"]
IoMode(op, ok) == [kind |-> "mode", op |-> op, ok |-> ok]
IoDraw(screen, text, ok) == [kind |-> "draw", screen |-> screen, text |-> text, ok |-> ok]
IoPrompt(ok) == [kind |-> "prompt", ok |-> ok]
\* the project question refused `input` and asks again
IoRejected(input) == [kind |-> "prompt_rejected", input |-> input]
\* `printed` is the line a println! writes after the call (none: <<>>) and
\* `print_ok` whether that write succeeded
IoSpawn(args, out, printed, print_ok) ==
    [kind |-> "spawn", args |-> args, out |-> out, printed |-> printed,
     print_ok |-> print_ok]
IoPrint(text, ok) == [kind |-> "print", text |-> text, ok |-> ok]

\* ui(): the text the frame of the current screen shows
ui(screen, status, list, stats) ==
    CASE screen = "Main" -> status
      [] screen = "List" -> list
      [] screen = "Stats" -> stats

(***************************************************************************)
(* The dispatch table of the specification (section 4.1), for the history  *)
(* variable table_screen only; the code's dispatch is run_app_dispatch.    *)
(***************************************************************************)
Table(screen, k) ==
    CASE screen = "Main" /\ k = "l" -> "List"
      [] screen = "Main" /\ k = "d" -> "Stats"
      [] screen \in {"List", "Stats"} /\ k = "b" -> "Main"
      [] OTHER -> screen

(***************************************************************************)
(* Variable groups.                                                        *)
(***************************************************************************)
term == <<raw, alt, mouse>>
app == <<current_screen, tracking_status, list_output, stats_output>>
tick == <<chan, rx_alive, ticker>>
hist == <<table_screen, teardown, session_misuse, bracket>>

\* the state main() holds before its first statement: App::new() values,
\* a cooked terminal on the primary screen, no channel yet
Init ==
    /\ pc = "m_enable_raw"
    /\ exit_status = "running"
    /\ res = "none"
    /\ raw = FALSE /\ alt = FALSE /\ mouse = FALSE
    /\ current_screen = "Main"
    /\ tracking_status = <<>>
    /\ list_output = <<>>
    /\ stats_output = <<>>
    /\ chan = 0
    /\ rx_alive = FALSE
    /\ ticker = "unspawned"
    /\ key = "none"
    /\ answers = <<>>
    /\ io = IoNone
    /\ table_screen = "Main"
    /\ teardown = {}
    /\ session_misuse = FALSE
    /\ bracket = "none"

(***************************************************************************)
(* How the process ends.                                                   *)
(***************************************************************************)
\* a panic on the main thread (unwrap/expect on an Err): the process ends at
\* once; nothing between the panic and the exit touches the terminal modes
Panic ==
    /\ pc' = "exited"
    /\ exit_status' = "panic"

\* main() returns Err through `?`: the process ends with a non-zero code
ReturnErr ==
    /\ pc' = "exited"
    /\ exit_status' = "err"

(***************************************************************************)
(* The four mode switches.  A call that fails leaves the mode as it was.   *)
(* session_misuse records a call made in the mode the call switches to.    *)
(***************************************************************************)
\* enable_raw_mode()
EnableRawMode(ok) ==
    /\ raw' = (ok \/ raw)
    /\ session_misuse' = (session_misuse \/ raw)
    /\ UNCHANGED <<alt, mouse>>

\* disable_raw_mode()
DisableRawMode(ok) ==
    /\ raw' = (raw /\ ~ok)
    /\ session_misuse' = (session_misuse \/ ~raw)
    /\ UNCHANGED <<alt, mouse>>

\* execute!(stdout, EnterAlternateScreen, EnableMouseCapture)
EnterAlternateScreen(ok) ==
    /\ alt' = (ok \/ alt)
    /\ mouse' = (ok \/ mouse)
    /\ session_misuse' = (session_misuse \/ alt)
    /\ UNCHANGED raw

\* execute!(stdout, LeaveAlternateScreen, DisableMouseCapture)
LeaveAlternateScreen(ok) ==
    /\ alt' = (alt /\ ~ok)
    /\ mouse' = (mouse /\ ~ok)
    /\ session_misuse' = (session_misuse \/ ~alt)
    /\ UNCHANGED raw

(***************************************************************************)
(* main(): set-up (lines 42-49).                                           *)
(***************************************************************************)
\* line 42: enable_raw_mode()?
main_enable_raw_mode ==
    /\ pc = "m_enable_raw"
    /\ \E ok \in BOOLEAN :
        /\ EnableRawMode(ok)
        /\ io' = IoMode("enable_raw_mode", ok)
        /\ IF ok THEN pc' = "m_enter_alt" /\ UNCHANGED exit_status ELSE ReturnErr
    /\ UNCHANGED <<res, app, tick, key, answers, table_screen, teardown, bracket>>

\* line 44: execute!(stdout, EnterAlternateScreen, EnableMouseCapture)?
main_enter_alternate_screen ==
    /\ pc = "m_enter_alt"
    /\ \E ok \in BOOLEAN :
        /\ EnterAlternateScreen(ok)
        /\ io' = IoMode("EnterAlternateScreen", ok)
        /\ IF ok THEN pc' = "m_terminal_new" /\ UNCHANGED exit_status ELSE ReturnErr
    /\ UNCHANGED <<res, app, tick, key, answers, table_screen, teardown, bracket>>

\* lines 45-49: Terminal::new(backend)?, then App::new()
main_terminal_new ==
    /\ pc = "m_terminal_new"
    /\ \E ok \in BOOLEAN :
        IF ok
        THEN /\ pc' = "r_spawn"
             /\ current_screen' = "Main"
             /\ tracking_status' = <<>>
             /\ list_output' = <<>>
             /\ stats_output' = <<>>
             /\ UNCHANGED exit_status
        ELSE ReturnErr /\ UNCHANGED app
    /\ io' = IoNone
    /\ UNCHANGED <<res, term, tick, key, answers, hist>>

(***************************************************************************)
(* run_app(): the channel, the ticker thread and the event loop.           *)
(***************************************************************************)
\* run_app returns `r`: its locals, the Receiver among them, are dropped and
\* main() goes on with the teardown
RunAppReturns(r) ==
    /\ res' = r
    /\ rx_alive' = FALSE
    /\ pc' = "m_disable_raw"
    /\ UNCHANGED <<chan, ticker, exit_status>>

\* lines 75-82: mpsc::channel() and thread::spawn of the ticker
run_app_spawn ==
    /\ pc = "r_spawn"
    /\ rx_alive' = TRUE
    /\ chan' = 0
    /\ ticker' = "running"
    /\ pc' = "r_try_recv"
    /\ io' = IoNone
    /\ UNCHANGED <<exit_status, res, term, app, key, answers, hist>>

\* the ticker thread, had line 75 made the channel with mpsc::sync_channel(1):
\* the send waits while one tick is pending
ticker_send_SyncChannel ==
    /\ ticker = "running"
    /\ exit_status = "running"
    /\ IF rx_alive
       THEN /\ chan < 1
            /\ chan' = chan + 1
            /\ UNCHANGED ticker
       ELSE /\ ticker' = "panicked"
            /\ UNCHANGED chan
    /\ UNCHANGED <<pc, exit_status, res, term, app, rx_alive, key, answers, io, hist>>

\* lines 79-82, the ticker thread: tracking_tx.send(()).unwrap(), then sleep.
\* mpsc::channel() is the asynchronous channel: send never blocks, and fails
\* only when the Receiver is gone.
ticker_send ==
    /\ ticker = "running"
    /\ exit_status = "running"
    /\ IF rx_alive
       THEN /\ chan < MaxTicks
            /\ chan' = chan + 1
            /\ UNCHANGED ticker
       ELSE /\ ticker' = "panicked"
            /\ UNCHANGED chan
    /\ UNCHANGED <<pc, exit_status, res, term, app, rx_alive, key, answers, io, hist>>

\* line 86: while let Ok(_) = rx.try_recv()
run_app_try_recv ==
    /\ pc = "r_try_recv"
    /\ IF chan > 0
       THEN chan' = chan - 1 /\ pc' = "r_tick_refresh"
       ELSE UNCHANGED chan /\ pc' = "r_draw"
    /\ io' = IoNone
    /\ UNCHANGED <<exit_status, res, term, app, rx_alive, ticker, key, answers, hist>>

\* app.tracking_status = get_current_tracking(), at `here`, going on at `next`
RefreshStatus(here, next, out) ==
    /\ pc = here
    /\ io' = IoSpawn(TrackingArgs, out, <<>>, TRUE)
    /\ IF out.spawned
       THEN /\ tracking_status' = get_current_tracking(out)
            /\ pc' = next
            /\ UNCHANGED exit_status
       ELSE /\ Panic
            /\ UNCHANGED tracking_status
    /\ UNCHANGED <<res, term, current_screen, list_output, stats_output, tick, key,
                   answers, hist>>

\* the refresh of a tick, had the redraw after it not tested the screen
run_app_tick_refresh_AlwaysDraw(out) ==
    RefreshStatus("r_tick_refresh", "r_tick_draw", out)

\* lines 87-88: the refresh a received tick causes, and the test of the screen
run_app_tick_refresh(out) ==
    RefreshStatus("r_tick_refresh",
                  IF current_screen = "Main" THEN "r_tick_draw" ELSE "r_try_recv",
                  out)

\* terminal.draw(|f| ui(f, app))? at `here`
Draw(here, next, ok) ==
    /\ pc = here
    /\ io' = IoDraw(current_screen,
                    ui(current_screen, tracking_status, list_output, stats_output), ok)
    /\ IF ok
       THEN pc' = next /\ UNCHANGED <<res, tick, exit_status>>
       ELSE RunAppReturns("Err")
    /\ UNCHANGED <<term, app, key, answers, hist>>

\* the redraw after a tick, had line 86 been an `if let` and not a `while let`
run_app_tick_draw_IfLet(ok) == Draw("r_tick_draw", "r_draw", ok)

\* line 90: the redraw after a tick on the main screen
run_app_tick_draw(ok) == Draw("r_tick_draw", "r_try_recv", ok)

\* line 95: the redraw of every cycle
run_app_draw(ok) == Draw("r_draw", "r_poll", ok)

\* the key codes the dispatch tells apart, and one it does not
Keys == {"q", "s", "f", "l", "d", "b", "x"}

\* lines 98-99: event::poll(100ms)?, then event::read()?
run_app_poll ==
    /\ pc = "r_poll"
    /\ io' = IoNone
    /\ \/ \* poll or read fails
          /\ RunAppReturns("Err")
          /\ UNCHANGED key
       \/ \* no event within the wait, or an event that is no key press
          /\ pc' = "r_try_recv"
          /\ UNCHANGED <<key, res, tick, exit_status>>
       \/ \* a key press
          \E k \in Keys :
            /\ key' = k
            /\ pc' = "r_dispatch"
            /\ UNCHANGED <<res, tick, exit_status>>
    /\ UNCHANGED <<term, app, answers, hist>>

\* the match, had its second arm named Screen::List alone
Dispatch_BackOnlyFromList(screen, k) ==
    IF screen = "Main"
    THEN CASE k = "q" -> "quit"
           [] k = "s" -> "start"
           [] k = "f" -> "finish"
           [] k = "l" -> "list"
           [] k = "d" -> "stats"
           [] OTHER -> "ignore"
    ELSE CASE k = "b" /\ screen = "List" -> "back"
           [] OTHER -> "ignore"

\* the match, had it tested the key q before the screen
Dispatch_QuitAnywhere(screen, k) ==
    IF k = "q" THEN "quit"
    ELSE IF screen = "Main"
    THEN CASE k = "s" -> "start"
           [] k = "f" -> "finish"
           [] k = "l" -> "list"
           [] k = "d" -> "stats"
           [] OTHER -> "ignore"
    ELSE CASE k = "b" -> "back"
           [] OTHER -> "ignore"

\* lines 100-135: the arm the match on (app.current_screen, key.code) selects
Dispatch(screen, k) ==
    IF screen = "Main"
    THEN CASE k = "q" -> "quit"
           [] k = "s" -> "start"
           [] k = "f" -> "finish"
           [] k = "l" -> "list"
           [] k = "d" -> "stats"
           [] OTHER -> "ignore"
    ELSE CASE k = "b" -> "back"
           [] OTHER -> "ignore"

\* lines 100-135: the body of the selected arm; `out` is what the list or
\* stats tool gives back when the arm runs it
run_app_dispatch(out) ==
    /\ pc = "r_dispatch"
    /\ key' = "none"
    /\ table_screen' = Table(table_screen, key)
    /\ LET arm == Dispatch(current_screen, key)
       IN  CASE arm = "quit" ->
                  /\ RunAppReturns("Ok")
                  /\ io' = IoNone
                  /\ UNCHANGED app
             [] arm = "start" ->
                  /\ pc' = "s_disable_raw"
                  /\ io' = IoNone
                  /\ UNCHANGED <<app, res, tick, exit_status>>
             [] arm = "finish" ->
                  /\ pc' = "f_disable_raw"
                  /\ io' = IoNone
                  /\ UNCHANGED <<app, res, tick, exit_status>>
             [] arm = "list" ->
                  /\ current_screen' = "List"
                  /\ io' = IoSpawn(ListArgs, out, <<>>, TRUE)
                  /\ IF out.spawned
                     THEN /\ list_output' = get_list_output(out)
                          /\ pc' = "r_try_recv"
                          /\ UNCHANGED exit_status
                     ELSE Panic /\ UNCHANGED list_output
                  /\ UNCHANGED <<tracking_status, stats_output, res, tick>>
             [] arm = "stats" ->
                  /\ current_screen' = "Stats"
                  /\ io' = IoSpawn(StatsArgs, out, <<>>, TRUE)
                  /\ IF out.spawned
                     THEN /\ stats_output' = get_stats_output(out)
                          /\ pc' = "r_try_recv"
                          /\ UNCHANGED exit_status
                     ELSE Panic /\ UNCHANGED stats_output
                  /\ UNCHANGED <<tracking_status, list_output, res, tick>>
             [] arm = "back" ->
                  /\ current_screen' = "Main"
                  /\ pc' = "r_try_recv"
                  /\ io' = IoNone
                  /\ UNCHANGED <<tracking_status, list_output, stats_output, res, tick,
                                 exit_status>>
             [] arm = "ignore" ->
                  /\ pc' = "r_try_recv"
                  /\ io' = IoNone
                  /\ UNCHANGED <<app, res, tick, exit_status>>
    /\ UNCHANGED <<term, answers, teardown, session_misuse, bracket>>

(***************************************************************************)
(* start_tracking() and finish_tracking(): suspend, prompt, resume, run    *)
(* the tool.  Every call in them is unwrapped: an Err is a panic.          *)
(***************************************************************************)
\* disable_raw_mode().unwrap()
SuspendRaw(here, next) ==
    /\ pc = here
    /\ \E ok \in BOOLEAN :
        /\ DisableRawMode(ok)
        /\ io' = IoMode("disable_raw_mode", ok)
        /\ IF ok THEN pc' = next /\ UNCHANGED exit_status ELSE Panic
    /\ UNCHANGED <<res, app, tick, key, answers, table_screen, teardown, bracket>>

\* execute!(io::stdout(), LeaveAlternateScreen, DisableMouseCapture).unwrap()
SuspendAlt(here, next) ==
    /\ pc = here
    /\ \E ok \in BOOLEAN :
        /\ LeaveAlternateScreen(ok)
        /\ io' = IoMode("LeaveAlternateScreen", ok)
        /\ IF ok THEN pc' = next /\ UNCHANGED exit_status ELSE Panic
    /\ UNCHANGED <<res, app, tick, key, answers, table_screen, teardown, bracket>>

\* requestty::prompt(..).unwrap(): `asked` are the answers a user can give
Prompt(here, next, asked) ==
    /\ pc = here
    /\ \/ \* the prompt returns Err (interrupted, end of input, I/O error)
          /\ bracket' = "failed"
          /\ io' = IoPrompt(FALSE)
          /\ Panic
          /\ UNCHANGED answers
       \/ \* the prompt returns the answers
          \E ans \in asked :
            /\ bracket' = "ok"
            /\ io' = IoPrompt(TRUE)
            /\ answers' = ans
            /\ pc' = next
            /\ UNCHANGED exit_status
    /\ UNCHANGED <<res, term, app, tick, key, table_screen, teardown, session_misuse>>

\* execute!(io::stdout(), EnterAlternateScreen, EnableMouseCapture).unwrap()
ResumeAlt(here, next) ==
    /\ pc = here
    /\ \E ok \in BOOLEAN :
        /\ EnterAlternateScreen(ok)
        /\ io' = IoMode("EnterAlternateScreen", ok)
        /\ IF ok THEN pc' = next /\ UNCHANGED exit_status ELSE Panic
    /\ UNCHANGED <<res, app, tick, key, answers, table_screen, teardown, bracket>>

\* the resume, had it left out enable_raw_mode()
ResumeRaw_Skipped(here, next) ==
    /\ pc = here
    /\ pc' = next
    /\ io' = IoNone
    /\ UNCHANGED <<exit_status, res, term, app, tick, key, answers, hist>>

\* enable_raw_mode().unwrap()
ResumeRaw(here, next) ==
    /\ pc = here
    /\ \E ok \in BOOLEAN :
        /\ EnableRawMode(ok)
        /\ io' = IoMode("enable_raw_mode", ok)
        /\ IF ok THEN pc' = next /\ UNCHANGED exit_status ELSE Panic
    /\ UNCHANGED <<res, app, tick, key, answers, table_screen, teardown, bracket>>

\* the tool call, had it unwrapped the exit status as it does the spawn
RunTool_AbortOnFailure(here, next, args, failed, out) ==
    /\ pc = here
    /\ io' = IoSpawn(args, out, <<>>, TRUE)
    /\ IF out.spawned /\ Success(out)
       THEN pc' = next /\ answers' = <<>> /\ UNCHANGED exit_status
       ELSE Panic /\ UNCHANGED answers
    /\ UNCHANGED <<res, term, app, tick, key, hist>>

\* Command::new("zeit").args(&args).output().expect(..), then the println! of
\* the failure (println! panics when the write to stdout fails); the function
\* returns and its answers are dropped
RunTool(here, next, args, failed, out) ==
    /\ pc = here
    /\ \/ /\ ~out.spawned
          /\ io' = IoSpawn(args, out, <<>>, TRUE)
          /\ Panic
          /\ UNCHANGED answers
       \/ /\ out.spawned
          /\ Success(out)
          /\ io' = IoSpawn(args, out, <<>>, TRUE)
          /\ pc' = next
          /\ answers' = <<>>
          /\ UNCHANGED exit_status
       \/ /\ out.spawned
          /\ ~Success(out)
          /\ \E ok \in BOOLEAN :
               /\ io' = IoSpawn(args, out, failed \o FromUtf8Lossy(out.stderr) \o <<10>>, ok)
               /\ IF ok
                  THEN pc' = next /\ answers' = <<>> /\ UNCHANGED exit_status
                  ELSE Panic /\ UNCHANGED answers
    /\ UNCHANGED <<res, term, app, tick, key, hist>>

\* line 226
start_tracking_disable_raw == SuspendRaw("s_disable_raw", "s_leave_alt")
\* line 227
start_tracking_leave_alt == SuspendAlt("s_leave_alt", "s_prompt")
\* the prompt of start_tracking, had the tool been run before the resume
start_tracking_prompt_ToolFirst(texts) == Prompt("s_prompt", "s_tool", StartAnswers(texts))
\* lines 230-249
start_tracking_prompt(texts) == Prompt("s_prompt", "s_enter_alt", StartAnswers(texts))
\* lines 232-238: the user enters a project the validator refuses; requestty
\* shows the message and keeps asking, the prompt does not return
start_tracking_reprompt(texts) ==
    /\ pc = "s_prompt"
    /\ \E input \in texts :
         /\ ~ValidateProject(input)
         /\ io' = IoRejected(input)
    /\ UNCHANGED <<pc, exit_status, res, term, app, tick, key, answers, hist>>
\* line 252
start_tracking_enter_alt == ResumeAlt("s_enter_alt", "s_enable_raw")
\* line 253
start_tracking_enable_raw == ResumeRaw("s_enable_raw", "s_tool")
\* lines 256-288
start_tracking_tool(out) ==
    RunTool("s_tool", "s_refresh", StartArgs(answers), FailedToStart, out)
\* line 109
run_app_start_refresh(out) == RefreshStatus("s_refresh", "r_try_recv", out)

\* line 293
finish_tracking_disable_raw == SuspendRaw("f_disable_raw", "f_leave_alt")
\* line 294
finish_tracking_leave_alt == SuspendAlt("f_leave_alt", "f_prompt")
\* lines 297-309
finish_tracking_prompt(texts) == Prompt("f_prompt", "f_enter_alt", FinishAnswers(texts))
\* line 312
finish_tracking_enter_alt == ResumeAlt("f_enter_alt", "f_enable_raw")
\* line 313
finish_tracking_enable_raw == ResumeRaw("f_enable_raw", "f_tool")
\* lines 316-350
finish_tracking_tool(out) ==
    RunTool("f_tool", "f_refresh", FinishArgs(answers), FailedToFinish, out)
\* line 114
run_app_finish_refresh(out) == RefreshStatus("f_refresh", "r_try_recv", out)

(***************************************************************************)
(* main(): teardown (lines 55-68), reached only when run_app returned.     *)
(***************************************************************************)
\* line 55: disable_raw_mode()?
main_disable_raw_mode ==
    /\ pc = "m_disable_raw"
    /\ teardown' = teardown \cup {"disable_raw_mode"}
    /\ \E ok \in BOOLEAN :
        /\ DisableRawMode(ok)
        /\ io' = IoMode("disable_raw_mode", ok)
        /\ IF ok THEN pc' = "m_leave_alt" /\ UNCHANGED exit_status ELSE ReturnErr
    /\ UNCHANGED <<res, app, tick, key, answers, table_screen, bracket>>

\* lines 56-60: execute!(terminal.backend_mut(), LeaveAlternateScreen, DisableMouseCapture)?
main_leave_alternate_screen ==
    /\ pc = "m_leave_alt"
    /\ teardown' = teardown \cup {"LeaveAlternateScreen"}
    /\ \E ok \in BOOLEAN :
        /\ LeaveAlternateScreen(ok)
        /\ io' = IoMode("LeaveAlternateScreen", ok)
        /\ IF ok THEN pc' = "m_show_cursor" /\ UNCHANGED exit_status ELSE ReturnErr
    /\ UNCHANGED <<res, app, tick, key, answers, table_screen, bracket>>

\* line 61: terminal.show_cursor()?
main_show_cursor ==
    /\ pc = "m_show_cursor"
    /\ teardown' = teardown \cup {"show_cursor"}
    /\ \E ok \in BOOLEAN :
        /\ io' = IoMode("show_cursor", ok)
        /\ IF ok THEN pc' = "m_report" /\ UNCHANGED exit_status ELSE ReturnErr
    /\ UNCHANGED <<res, term, app, tick, key, answers, table_screen, session_misuse,
                   bracket>>

\* "Error: "
ErrorPrefix == <<69, 114, 114, 111, 114, 58, 32>>

\* lines 64-68: print the error of run_app, if any (println! panics when the
\* write fails), and return Ok(())
main_report ==
    /\ pc = "m_report"
    /\ pc' = "exited"
    /\ IF res = "Err"
       THEN \E ok \in BOOLEAN :
              /\ io' = IoPrint(ErrorPrefix, ok)
              /\ exit_status' = IF ok THEN "ok" ELSE "panic"
       ELSE /\ io' = IoNone
            /\ exit_status' = "ok"
    /\ UNCHANGED <<res, term, app, tick, key, answers, hist>>

(***************************************************************************)
(* The program.                                                            *)
(***************************************************************************)
\* what the tool may give back to any one call
ToolResults == SampleOutputs \cup {SpawnFailure}

Next ==
    \/ main_enable_raw_mode
    \/ main_enter_alternate_screen
    \/ main_terminal_new
    \/ run_app_spawn
    \/ ticker_send
    \/ run_app_try_recv
    \/ \E out \in ToolResults : run_app_tick_refresh(out)
    \/ \E ok \in BOOLEAN : run_app_tick_draw(ok)
    \/ \E ok \in BOOLEAN : run_app_draw(ok)
    \/ run_app_poll
    \/ \E out \in ToolResults : run_app_dispatch(out)
    \/ start_tracking_disable_raw
    \/ start_tracking_leave_alt
    \/ start_tracking_prompt(SampleTexts)
    \/ start_tracking_reprompt(SampleTexts)
    \/ start_tracking_enter_alt
    \/ start_tracking_enable_raw
    \/ \E out \in ToolResults : start_tracking_tool(out)
    \/ \E out \in ToolResults : run_app_start_refresh(out)
    \/ finish_tracking_disable_raw
    \/ finish_tracking_leave_alt
    \/ finish_tracking_prompt(SampleTexts)
    \/ finish_tracking_enter_alt
    \/ finish_tracking_enable_raw
    \/ \E out \in ToolResults : finish_tracking_tool(out)
    \/ \E out \in ToolResults : run_app_finish_refresh(out)
    \/ main_disable_raw_mode
    \/ main_leave_alternate_screen
    \/ main_show_cursor
    \/ main_report

Spec == Init /\ [][Next]_vars

(***************************************************************************)
(* The status query on its own: the loop stands at the refresh a tick      *)
(* causes, and the tool answers with any output of the enumerated bytes.   *)
(***************************************************************************)
InitStatus ==
    /\ pc = "r_tick_refresh"
    /\ exit_status = "running"
    /\ res = "none"
    /\ raw = TRUE /\ alt = TRUE /\ mouse = TRUE
    /\ current_screen \in {"Main", "List"}
    /\ tracking_status = <<>>
    /\ list_output = <<>>
    /\ stats_output = <<>>
    /\ chan = 0
    /\ rx_alive = TRUE
    /\ ticker = "running"
    /\ key = "none"
    /\ answers = <<>>
    /\ io = IoNone
    /\ table_screen = current_screen
    /\ teardown = {}
    /\ session_misuse = FALSE
    /\ bracket = "none"

NextStatus ==
    \E out \in AllOutputs \cup {SpawnFailure} : run_app_tick_refresh(out)

SpecStatus == InitStatus /\ [][NextStatus]_vars

(***************************************************************************)
(* start_tracking() on its own, from its prompt on: the session is         *)
(* suspended, and the user answers with any text of the enumerated chars.  *)
(***************************************************************************)
InitStart ==
    /\ pc = "s_prompt"
    /\ exit_status = "running"
    /\ res = "none"
    /\ raw = FALSE /\ alt = FALSE /\ mouse = FALSE
    /\ current_screen = "Main"
    /\ tracking_status = NoActiveTracking
    /\ list_output = <<>>
    /\ stats_output = <<>>
    /\ chan = 0
    /\ rx_alive = TRUE
    /\ ticker = "running"
    /\ key = "none"
    /\ answers = <<>>
    /\ io = IoMode("LeaveAlternateScreen", TRUE)
    /\ table_screen = "Main"
    /\ teardown = {}
    /\ session_misuse = FALSE
    /\ bracket = "none"

\* what the start operation of the tool may give back
StartResults == Outputs({<<65>>}) \cup {SpawnFailure}

NextStart ==
    \/ start_tracking_prompt(AllTexts)
    \/ start_tracking_reprompt(AllTexts)
    \/ start_tracking_enter_alt
    \/ start_tracking_enable_raw
    \/ \E out \in StartResults : start_tracking_tool(out)

SpecStart == InitStart /\ [][NextStart]_vars

(***************************************************************************)
(* Properties.                                                             *)
(***************************************************************************)

\* C1: through every sequence of key presses and ticks the active screen is
\* the one the dispatch table of the specification gives when it is applied
\* to the processed keys in order: no transition is skipped or applied twice,
\* and a tick never changes the screen.
C1_ScreenFollowsTable == current_screen = table_screen

\* a frame of the main screen drawn after both the list and the statistics
\* screen were visited and left
C1_Witness ==
    /\ io.kind = "draw"
    /\ current_screen = "Main"
    /\ list_output # <<>>
    /\ stats_output # <<>>
    /\ chan > 0

\* C2: run_app returns Ok only in the step that dispatches the key q while
\* the current screen is Main.
C2_OkOnlyByQuitOnMain ==
    [][(res' = "Ok" /\ res # "Ok") =>
         (pc = "r_dispatch" /\ key = "q" /\ current_screen = "Main")]_vars

\* the loop returned Ok after the list screen had been visited
C2_Witness == res = "Ok" /\ list_output # <<>>

\* the three teardown calls of main()
TeardownCalls == {"disable_raw_mode", "LeaveAlternateScreen", "show_cursor"}

\* C3: whenever the process has ended after the main loop ran, the teardown
\* (leave raw mode, leave the alternate screen, show the cursor) was invoked.
C3_TeardownAfterLoop ==
    (pc = "exited" /\ ticker # "unspawned") => teardown = TeardownCalls

\* C4: after a prompt whose body failed the terminal is back in the
\* alternate screen and in raw mode.
C4_ResumeAfterFailedPrompt == bracket = "failed" => (raw /\ alt)

\* C5: in every state in which the process has exited the terminal is
\* neither in raw mode nor in the alternate screen.
C5_NoDanglingSession == pc = "exited" => (~raw /\ ~alt)

\* C6: enter and leave strictly alternate: raw mode is never enabled while
\* enabled nor disabled while disabled, and the alternate screen is never
\* entered while entered nor left while left.
C6_EnterLeaveAlternate == ~session_misuse

\* the process ended cleanly after a start command went through its prompt
C6_Witness ==
    /\ pc = "exited"
    /\ exit_status = "ok"
    /\ bracket = "ok"
    /\ teardown = TeardownCalls

\* C7, as claimed: after the failure of any external-tool call, a failure to
\* spawn the tool included, the loop is still running.
C7_NoToolFailureAborts ==
    (io.kind = "spawn" /\ (~io.out.spawned \/ io.out.code # 0)) =>
        (exit_status = "running" /\ res = "none")

\* C7, amended: after a tool call that ran and exited with a non-zero code
\* the loop is still running and the failure is text: the fixed sentinel for
\* the status, the formatted text with standard error for list and stats,
\* and for start and finish a printed line (unless that write itself fails).
C7_NonZeroExitKeepsLoop ==
    (io.kind = "spawn" /\ io.out.spawned /\ io.out.code # 0 /\ io.print_ok) =>
        /\ exit_status = "running"
        /\ res = "none"
        /\ pc \notin {"exited", "m_disable_raw", "m_leave_alt", "m_show_cursor", "m_report"}
        /\ CASE io.args = TrackingArgs -> tracking_status = ErrorGettingStatus
             [] io.args = ListArgs ->
                  list_output = ErrorGettingList \o FromUtf8Lossy(io.out.stderr)
             [] io.args = StatsArgs ->
                  stats_output = ErrorGettingStats \o FromUtf8Lossy(io.out.stderr)
             [] Head(io.args) = ArgTrack ->
                  io.printed = FailedToStart \o FromUtf8Lossy(io.out.stderr) \o <<10>>
             [] Head(io.args) = ArgFinish ->
                  io.printed = FailedToFinish \o FromUtf8Lossy(io.out.stderr) \o <<10>>

\* the start operation exited with a non-zero code and the loop goes on to
\* the status refresh
C7_Witness ==
    /\ io.kind = "spawn"
    /\ io.out.spawned
    /\ io.out.code # 0
    /\ Head(io.args) = ArgTrack
    /\ pc = "s_refresh"

\* C8: when the status query exits with a non-zero code the status text is
\* "Error getting tracking status." whatever standard error and standard
\* output hold.
C8_ErrorSentinelOnly ==
    (io.kind = "spawn" /\ io.args = TrackingArgs /\ io.out.spawned /\ io.out.code # 0) =>
        tracking_status = ErrorGettingStatus

\* the status query failed with text on both streams
C8_Witness ==
    /\ io.kind = "spawn"
    /\ io.out.spawned
    /\ io.out.code # 0
    /\ io.out.stderr # <<>>
    /\ io.out.stdout # <<>>
    /\ tracking_status = ErrorGettingStatus

\* C9, as claimed: a successful status query gives the sentinel for an empty
\* output and the output itself for every non-empty output, never an empty
\* text.
C9_VerbatimUnlessEmpty ==
    (io.kind = "spawn" /\ io.args = TrackingArgs /\ io.out.spawned /\ io.out.code = 0) =>
        /\ tracking_status # <<>>
        /\ tracking_status =
             IF io.out.stdout = <<>> THEN NoActiveTracking ELSE io.out.stdout

\* C9, amended: a successful status query gives the sentinel when the decoded
\* output is empty after trimming white space, and otherwise the output as
\* from_utf8_lossy decodes it; the status query never returns an empty text.
C9_SentinelWhenBlank ==
    (io.kind = "spawn" /\ io.args = TrackingArgs /\ io.out.spawned) =>
        /\ tracking_status # <<>>
        /\ io.out.code = 0 =>
             tracking_status =
               IF Trim(FromUtf8Lossy(io.out.stdout)) = <<>>
               THEN NoActiveTracking
               ELSE FromUtf8Lossy(io.out.stdout)

\* the status query succeeded with a single newline
C9_Witness ==
    /\ io.kind = "spawn"
    /\ io.out.spawned
    /\ io.out.code = 0
    /\ io.out.stdout = <<10>>
    /\ tracking_status = NoActiveTracking

\* the argument sequence the claim C10 gives for the answers `ans`
ClaimedStartArgs(ans) ==
    <<ArgTrack, FlagProject, ans.project>>
        \o (IF Trim(ans.task) # <<>> THEN <<FlagTask, ans.task>> ELSE <<>>)
        \o (IF Trim(ans.begin) # <<>> THEN <<FlagBegin, ans.begin>> ELSE <<>>)
        \o <<FlagNoColors>>

\* C10: the start operation is invoked with track, --project <project>,
\* --task <task> iff the task is non-empty after trimming, --begin <begin>
\* iff the begin is non-empty after trimming, and --no-colors last; the
\* project Website alone gives track --project Website --no-colors.
C10_StartArgumentOrder ==
    [][(pc = "s_tool" /\ pc' # "s_tool") =>
         /\ io'.kind = "spawn"
         /\ io'.args = ClaimedStartArgs(answers)
         /\ (answers = [project |-> Website, task |-> <<>>, begin |-> <<>>]) =>
              io'.args = <<ArgTrack, FlagProject, Website, FlagNoColors>>]_vars

\* the tool was started for the project Website with no task and no begin
C10_Witness ==
    /\ io.kind = "spawn"
    /\ io.args = <<ArgTrack, FlagProject, Website, FlagNoColors>>
    /\ io.out.spawned

\* C11: the start operation is never invoked without --project or with a
\* project that is empty or white space only; a project answer the validator
\* refuses leaves the prompt asking and reaches no tool call.
C11_ProjectNeverBlank ==
    /\ (io.kind = "spawn" /\ Head(io.args) = ArgTrack) =>
          /\ Len(io.args) >= 3
          /\ io.args[2] = FlagProject
          /\ Trim(io.args[3]) # <<>>
    /\ io.kind = "prompt_rejected" =>
          /\ Trim(io.input) = <<>>
          /\ pc = "s_prompt"

\* a project of one space was entered and refused
C11_Witness ==
    /\ io.kind = "prompt_rejected"
    /\ io.input = <<32>>
    /\ pc = "s_prompt"

\* the text the list query returns for the output `out` of the tool
ListQueryText(out) ==
    IF out.code = 0
    THEN FromUtf8Lossy(out.stdout)
    ELSE ErrorGettingList \o FromUtf8Lossy(out.stderr)

\* C12: l on Main switches to the List screen and stores exactly the text the
\* list query returns; b on List or Stats returns to Main, runs no tool (so no
\* status query) and leaves the three texts as they were.
C12_ListThenBack ==
    [][/\ (pc = "r_dispatch" /\ pc' # pc /\ current_screen = "Main" /\ key = "l") =>
            /\ current_screen' = "List"
            /\ io'.kind = "spawn"
            /\ io'.args = ListArgs
            /\ io'.out.spawned => list_output' = ListQueryText(io'.out)
            /\ UNCHANGED <<tracking_status, stats_output>>
       /\ (pc = "r_dispatch" /\ pc' # pc /\ current_screen \in {"List", "Stats"} /\ key = "b") =>
            /\ current_screen' = "Main"
            /\ io'.kind # "spawn"
            /\ UNCHANGED <<tracking_status, list_output, stats_output>>]_vars

\* back on Main from the List screen with the list text stored and the
\* status never queried
C12_Witness ==
    /\ current_screen = "Main"
    /\ pc = "r_try_recv"
    /\ io.kind = "none"
    /\ list_output = <<10>>
    /\ tracking_status = <<>>

\* the text the status query returns for the output `out` of the tool
StatusQueryText(out) ==
    IF out.code # 0 THEN ErrorGettingStatus
    ELSE IF Trim(FromUtf8Lossy(out.stdout)) = <<>> THEN NoActiveTracking
    ELSE FromUtf8Lossy(out.stdout)

\* C13, as claimed: a tick drained while the current screen is List or Stats
\* invokes no status query and leaves the tracking-status text unchanged.
C13_NoRefreshOffMain ==
    [][(pc = "r_tick_refresh" /\ pc' # pc /\ current_screen # "Main") =>
         (io'.kind # "spawn" /\ tracking_status' = tracking_status)]_vars

\* C13, amended: every drained tick invokes the status query and stores its
\* text, whatever the current screen; only the redraw that follows the
\* refresh is limited to the Main screen.
C13_RefreshAlwaysRedrawOnMain ==
    [][(pc = "r_tick_refresh" /\ pc' # pc) =>
         /\ io'.kind = "spawn"
         /\ io'.args = TrackingArgs
         /\ io'.out.spawned =>
              /\ tracking_status' = StatusQueryText(io'.out)
              /\ pc' = IF current_screen = "Main" THEN "r_tick_draw" ELSE "r_try_recv"]_vars

\* a tick drained on the List screen replaced the status text
C13_Witness ==
    /\ current_screen = "List"
    /\ pc = "r_try_recv"
    /\ io.kind = "spawn"
    /\ io.args = TrackingArgs
    /\ io.out.spawned
    /\ tracking_status = ErrorGettingStatus

\* C14, as claimed: every tick that is received is followed, in the same
\* cycle, by a redraw that shows the refreshed status: the frame the loop
\* draws from the state the refresh leaves is the status text.  (No key is
\* dispatched between the refresh and the redraws of the cycle.)
C14_RedrawShowsStatus ==
    [][(pc = "r_tick_refresh" /\ pc' # pc /\ io'.out.spawned) =>
         ui(current_screen', tracking_status', list_output', stats_output')
             = tracking_status']_vars

\* C14, amended: the unconditional redraw of a cycle is reached only when the
\* non-blocking receive found the channel empty; every received tick is one
\* tick, followed at once by the status refresh; and the redraw that follows
\* draws the current screen, which shows the refreshed status when that
\* screen is Main.
C14_DrainBeforeRedraw ==
    [][/\ (pc' = "r_draw" /\ pc # "r_draw") => (pc = "r_try_recv" /\ chan = 0)
       /\ (pc = "r_try_recv" /\ pc' # pc) =>
            pc' = IF chan = 0 THEN "r_draw" ELSE "r_tick_refresh"
       /\ (pc = "r_try_recv" /\ pc' = "r_tick_refresh") => chan' = chan - 1
       /\ (pc = "r_tick_refresh" /\ pc' # pc /\ io'.out.spawned) =>
            /\ tracking_status' = StatusQueryText(io'.out)
            /\ current_screen = "Main" => pc' = "r_tick_draw"
       /\ (pc \in {"r_tick_draw", "r_draw"} /\ pc' # pc) =>
            /\ io'.kind = "draw"
            /\ io'.screen = current_screen
            /\ current_screen = "Main" => io'.text = tracking_status]_vars

\* the redraw after a tick showed the refreshed status on Main while another
\* tick is already pending
C14_Witness ==
    /\ pc = "r_try_recv"
    /\ io.kind = "draw"
    /\ io.screen = "Main"
    /\ io.text = NoActiveTracking
    /\ chan > 0

\* the positions of the s and of the f command, in the order of the claim C15:
\* suspend (two calls), prompt, resume (two calls), tool, status refresh
StartOrder ==
    <<"s_disable_raw", "s_leave_alt", "s_prompt", "s_enter_alt", "s_enable_raw", "s_tool",
      "s_refresh", "r_try_recv">>
FinishOrder ==
    <<"f_disable_raw", "f_leave_alt", "f_prompt", "f_enter_alt", "f_enable_raw", "f_tool",
      "f_refresh", "r_try_recv">>

\* the effect the i-th step of a command has, for the operation `op` of the tool
StepEffect(i, e, op) ==
    CASE i = 1 -> e.kind = "mode" /\ e.op = "disable_raw_mode"
      [] i = 2 -> e.kind = "mode" /\ e.op = "LeaveAlternateScreen"
      [] i = 3 -> e.kind = "prompt"
      [] i = 4 -> e.kind = "mode" /\ e.op = "EnterAlternateScreen"
      [] i = 5 -> e.kind = "mode" /\ e.op = "enable_raw_mode"
      [] i = 6 -> e.kind = "spawn" /\ Head(e.args) = op
      [] i = 7 -> e.kind = "spawn" /\ e.args = TrackingArgs

\* one command keeps the order: each step is the next of the order or the end
\* of the process, the prompt runs suspended, the tool runs resumed
InOrder(order, op) ==
    \A i \in 1..7 :
        (pc = order[i] /\ pc' # pc) =>
            /\ pc' \in {order[i + 1], "exited"}
            /\ StepEffect(i, io', op)
            /\ i = 3 => (~raw /\ ~alt)
            /\ i \in {6, 7} => (raw /\ alt /\ bracket = "ok")

\* C15: for s the session is suspended, the answers are collected, the
\* session is resumed, the start operation is invoked and only then the
\* status is re-queried and stored, each step after the one before; likewise
\* for f; and from the suspend to the refresh no tick is received and no
\* frame is drawn.
C15_CommandStepsInOrder ==
    [][/\ InOrder(StartOrder, ArgTrack)
       /\ InOrder(FinishOrder, ArgFinish)
       /\ (\E i \in 1..7 : pc \in {StartOrder[i], FinishOrder[i]}) =>
            /\ chan' >= chan
            /\ io'.kind # "draw"
       /\ (pc \in {"s_refresh", "f_refresh"} /\ pc' = "r_try_recv") =>
            tracking_status' = StatusQueryText(io'.out)]_vars

\* the start operation has run after the resume, the refresh is next, and
\* the ticks sent meanwhile are all still pending
C15_Witness ==
    /\ pc = "s_refresh"
    /\ io.kind = "spawn"
    /\ Head(io.args) = ArgTrack
    /\ io.out.code = 0
    /\ raw /\ alt
    /\ chan >= 2

\* C16: when the list (stats) query exits with a non-zero code after l (d) on
\* Main, the screen is List (Stats), the list (stats) text is the formatted
\* error text with the decoded standard error in it, and the loop runs on.
C16_QueryFailureShown ==
    /\ (io.kind = "spawn" /\ io.args = ListArgs /\ io.out.spawned /\ io.out.code # 0) =>
          /\ current_screen = "List"
          /\ list_output = ErrorGettingList \o FromUtf8Lossy(io.out.stderr)
          /\ pc = "r_try_recv"
          /\ exit_status = "running"
          /\ res = "none"
    /\ (io.kind = "spawn" /\ io.args = StatsArgs /\ io.out.spawned /\ io.out.code # 0) =>
          /\ current_screen = "Stats"
          /\ stats_output = ErrorGettingStats \o FromUtf8Lossy(io.out.stderr)
          /\ pc = "r_try_recv"
          /\ exit_status = "running"
          /\ res = "none"

\* the stats query failed with text on standard error
C16_Witness ==
    /\ io.kind = "spawn"
    /\ io.args = StatsArgs
    /\ io.out.spawned
    /\ io.out.code # 0
    /\ io.out.stderr = <<65>>
    /\ current_screen = "Stats"

\* C17, as claimed: the number of ticks sent and not yet received never
\* exceeds one.
C17_AtMostOnePending == chan <= 1

\* the positions at which the main thread waits for the user or for the tool
BlockedPositions ==
    {"s_prompt", "f_prompt", "s_tool", "f_tool", "s_refresh", "f_refresh", "r_tick_refresh"}

\* C17, amended: the channel is asynchronous and unbounded: a send adds one
\* tick wherever the main thread stands and is never held back by pending
\* ticks (below the bound MaxTicks of the model), also while the main thread
\* is blocked; and every receive takes one tick and owes one status refresh.
C17_TicksAccumulate ==
    [][/\ chan' > chan => (chan' = chan + 1 /\ pc' = pc /\ rx_alive)
       /\ chan' < chan =>
            (chan' = chan - 1 /\ pc = "r_try_recv" /\ pc' = "r_tick_refresh")
       /\ (pc \in BlockedPositions /\ ticker = "running" /\ rx_alive /\ chan < MaxTicks) =>
            ENABLED ticker_send]_vars

\* two ticks are pending while the prompt of the start command is open
C17_Witness ==
    /\ pc = "s_prompt"
    /\ chan >= 2

\* C18: a send of the ticker thread never fails: whenever the ticker sends,
\* the Receiver still exists, so the ticker thread never panics.
C18_SendNeverFails == ticker # "panicked"

\* C19: every frame drawn while the current screen is Main shows a non-empty
\* tracking-status text, the first frame after startup included.
C19_MainFrameNeverEmpty ==
    (io.kind = "draw" /\ io.ok /\ io.screen = "Main") => io.text # <<>>

\* the parts of the claim C20 about frames and prompts: a frame is drawn only
\* while the session is entered, a prompt runs only while it is suspended
FramesAndPromptsRespectSession ==
    /\ io.kind = "draw" => (raw /\ alt)
    /\ io.kind \in {"prompt", "prompt_rejected"} => (~raw /\ ~alt)

\* the part of the claim C20 about text printed directly to the terminal
PrintsRespectSession ==
    /\ (io.kind = "spawn" /\ io.printed # <<>>) => (~raw /\ ~alt)
    /\ io.kind = "print" => (~raw /\ ~alt)

\* C20: a frame is drawn only while the alternate-screen/raw-mode session is
\* entered, a prompt runs only while the session is suspended, and text is
\* printed directly to the terminal only while the session is not entered.
C20_OutputRespectsSession ==
    FramesAndPromptsRespectSession /\ PrintsRespectSession

====
